---- MODULE Spec2Model ----
(***************************************************************************)
(* gin-logrus: the request logger GinLogrus, the panic recoverer           *)
(* RecoveryWithLoggerMiddleware and their shared generateLogFields,        *)
(* modelled as one request travelling through a gin handler chain.         *)
(***************************************************************************)
EXTENDS Integers, Sequences, FiniteSets, TLC

(***************************************************************************)
(* Bounds of the model.                                                    *)
(***************************************************************************)
\* the handler performs at most this many operations before it returns or panics
MaxHandlerSteps == 2
\* the handler writes at most this many body bytes per Write call
MaxWrite == 1

(***************************************************************************)
(* Program constants.                                                      *)
(***************************************************************************)
\* logging.go:56  stack := make([]byte, 2048)
StackBufLen == 2048
\* logging.go:79  http.StatusInternalServerError
StatusInternalServerError == 500
\* gin's writer before anything is written: status 200, size -1
DefaultStatus == 200
NoWritten == 0 - 1
\* gin's abortIndex (math.MaxInt8 >> 1)
AbortIndex == 63

\* logging.go:15
UserClaimsKey == "userClaims"

(***************************************************************************)
(* Go values held in interface{}: a dynamic type, a text rendering and,    *)
(* for maps, the entries.                                                  *)
(***************************************************************************)
NoEntries == [k \in {} |-> 0]

Val(d, t) == [dyn |-> d, text |-> t, entries |-> NoEntries]

MapVal(d, e) == [dyn |-> d, text |-> "", entries |-> e]

NilValue == Val("nil", "")

IsNil(v) == v.dyn = "nil"

\* x.(T): the assertion succeeds only when the dynamic type is exactly T
TypeAssertOk(v, T) == v.dyn = T

\* m[k] on a map[string]interface{}: the nil interface when k is missing
MapIndex(m, k) == IF k \in DOMAIN m.entries THEN m.entries[k] ELSE NilValue

\* c.Get(key): (value, exists)
CtxGet(ks, key) ==
    IF key \in DOMAIN ks
    THEN [value |-> ks[key], ok |-> TRUE]
    ELSE [value |-> NilValue, ok |-> FALSE]

(***************************************************************************)
(* Values an upstream collaborator may have stored under "userClaims".     *)
(***************************************************************************)
GenericMap == "map[string]interface{}"

ClaimValues ==
    { MapVal(GenericMap, [k \in {"UserID"} |-> Val("string", "abc-123")]),
      MapVal(GenericMap, [k \in {"UserID"} |-> Val("string", "")]),
      MapVal(GenericMap, [k \in {"UserID", "Email"} |->
                IF k = "UserID" THEN Val("uuid.UUID", "6ba7b810") ELSE Val("string", "a@b.c")]),
      MapVal(GenericMap, [k \in {"Email"} |-> Val("string", "a@b.c")]),
      MapVal(GenericMap, NoEntries),
      MapVal("map[string]string", [k \in {"UserID"} |-> Val("string", "abc-123")]),
      MapVal("jwt.MapClaims", [k \in {"UserID"} |-> Val("string", "abc-123")]),
      Val("models.UserContext", "{a@b.c 6ba7b810}"),
      NilValue }

\* the request-scoped store: the key is missing, or holds one of the values
KeyStores ==
    {NoEntries} \cup {[k \in {UserClaimsKey} |-> v] : v \in ClaimValues}

(***************************************************************************)
(* Requests.                                                               *)
(***************************************************************************)
Requests ==
    { [Method |-> "GET", Proto |-> "HTTP/1.1", Host |-> "api.example.com",
       Scheme |-> "https", UrlHostname |-> "api.example.com", UrlPort |-> "",
       Path |-> "/v1/items", RawQuery |-> "x=1", Fragment |-> "",
       UrlString |-> "https://api.example.com/v1/items?x=1",
       ContentLength |-> 0, ContentType |-> "", Referer |-> "",
       UserAgent |-> "curl/8.0", ClientIP |-> "10.0.0.7"],
      [Method |-> "", Proto |-> "", Host |-> "",
       Scheme |-> "", UrlHostname |-> "", UrlPort |-> "",
       Path |-> "", RawQuery |-> "", Fragment |-> "",
       UrlString |-> "",
       ContentLength |-> 0 - 1, ContentType |-> "", Referer |-> "",
       UserAgent |-> "", ClientIP |-> ""] }

(***************************************************************************)
(* generateLogFields                                                       *)
(***************************************************************************)
\* time.Time.Format("2006-01-02T15:04:05.000Z") of the instant t (in ms)
FormatTime(t) == <<"2006-01-02T15:04:05.000Z", t>>

\* time.Duration.Seconds(): milliseconds as a fraction <<numerator, denominator>>
Seconds(d) == <<d, 1000>>

\* m with key k set to v (fields[k] = v, entry.WithField(k, v))
WithField(m, k, v) == [x \in DOMAIN m \cup {k} |-> IF x = k THEN v ELSE m[x]]

\* entry.WithFields(extra): extra's keys override
WithFields(m, extra) ==
    [x \in DOMAIN m \cup DOMAIN extra |-> IF x \in DOMAIN extra THEN extra[x] ELSE m[x]]

\* a lookup that takes any value with a "UserID" entry, whatever the types
UserIDOfAnyShape(ks) ==
    LET got == CtxGet(ks, UserClaimsKey) IN
    IF got.ok /\ "UserID" \in DOMAIN got.value.entries
    THEN [exists |-> TRUE, id |-> got.value.entries["UserID"].text]
    ELSE [exists |-> FALSE, id |-> ""]

\* the three nested checks of logging.go:120-127 (and 33-39)
UserIDOf(ks) ==
    LET got == CtxGet(ks, UserClaimsKey) IN
    IF ~got.ok THEN [exists |-> FALSE, id |-> ""]
    ELSE IF ~TypeAssertOk(got.value, GenericMap) THEN [exists |-> FALSE, id |-> ""]
    ELSE LET u == MapIndex(got.value, "UserID") IN
         IF TypeAssertOk(u, "string")
         THEN [exists |-> TRUE, id |-> u.text]
         ELSE [exists |-> FALSE, id |-> ""]

\* logging.go:93-116: the keys of the literal
FieldKeys ==
    {"url.domain", "url.fragment", "url.full", "url.original", "url.path",
     "url.port", "url.query", "url.registered_domain", "url.scheme",
     "http.request.bytes", "http.request.method", "http.request.mime_type",
     "http.request.referrer", "http.response.body.bytes",
     "http.response.status_code", "http.version", "client.address",
     "client.ip", "server.address", "server.ip", "user_agent.original",
     "event.duration", "event.start", "event.end"}

\* logging.go:93-116: the value of each key
FieldValue(k, rq, wr, start, nowT) ==
    CASE k = "url.domain" -> rq.Host
      [] k = "url.fragment" -> rq.Fragment
      [] k = "url.full" -> rq.UrlString
      [] k = "url.original" -> rq.UrlString
      [] k = "url.path" -> rq.Path
      [] k = "url.port" -> rq.UrlPort
      [] k = "url.query" -> rq.RawQuery
      [] k = "url.registered_domain" -> rq.UrlHostname
      [] k = "url.scheme" -> rq.Scheme
      [] k = "http.request.bytes" -> rq.ContentLength
      [] k = "http.request.method" -> rq.Method
      [] k = "http.request.mime_type" -> rq.ContentType
      [] k = "http.request.referrer" -> rq.Referer
      [] k = "http.response.body.bytes" -> wr.size
      [] k = "http.response.status_code" -> wr.status
      [] k = "http.version" -> rq.Proto
      [] k = "client.address" -> rq.ClientIP
      [] k = "client.ip" -> rq.ClientIP
      [] k = "server.address" -> rq.Host
      [] k = "server.ip" -> rq.Host
      [] k = "user_agent.original" -> rq.UserAgent
      [] k = "event.duration" -> Seconds(nowT - start)
      [] k = "event.start" -> FormatTime(start)
      [] k = "event.end" -> FormatTime(nowT)

\* a field set that leaves out the URL attributes that are empty
BaseFieldsOmitEmpty(rq, wr, start, nowT) ==
    [k \in {x \in FieldKeys :
               ~(x = "url.fragment" /\ rq.Fragment = "")
               /\ ~(x = "url.query" /\ rq.RawQuery = "")} |->
        FieldValue(k, rq, wr, start, nowT)]

\* a field set read after the response was aborted with 500
BaseFieldsAfterAbort(rq, wr, start, nowT) ==
    [k \in FieldKeys |->
        FieldValue(k, rq, [status |-> StatusInternalServerError, size |-> IF wr.size < 0 THEN 0 ELSE wr.size],
                   start, nowT)]

\* logging.go:92-117
BaseFields(rq, wr, start, nowT) ==
    [k \in FieldKeys |-> FieldValue(k, rq, wr, start, nowT)]

\* logging.go:88-129
generateLogFields(rq, wr, ks, start, nowT) ==
    LET fields == BaseFields(rq, wr, start, nowT)
        u == UserIDOf(ks) IN
    IF u.exists THEN WithField(fields, "user.id", u.id) ELSE fields

(***************************************************************************)
(* gin's response writer, as the calls of logging.go use it.               *)
(***************************************************************************)
Written(w) == w.size /= NoWritten

\* ResponseWriter.WriteHeader(code), reached through c.Status(code).  Once the
\* headers are written gin only warns; releases differ on whether the recorded
\* status is still overwritten (sticky = the release returns without changing it)
WriteHeader(w, code, sticky) ==
    IF code > 0 /\ w.status /= code
    THEN IF Written(w) /\ sticky THEN w ELSE [w EXCEPT !.status = code]
    ELSE w

\* ResponseWriter.WriteHeaderNow()
WriteHeaderNow(w) == IF Written(w) THEN w ELSE [w EXCEPT !.size = 0]

\* what has gone to the client once WriteHeaderNow ran on a fresh writer
SendHeader(w, sent) ==
    IF Written(w) THEN sent ELSE [sent EXCEPT !.status = w.status]

(***************************************************************************)
(* gin.Errors.String() and the two log messages.                           *)
(***************************************************************************)
\* a rendering of the last recorded error only
ErrorsStringLast(errs) ==
    IF errs = <<>> THEN <<>> ELSE <<<<"Error #", Len(errs), errs[Len(errs)]>>>>

ErrorsString(errs) == [i \in 1..Len(errs) |-> <<"Error #", i, errs[i]>>]

FailedMessage(errs) == <<"Request failed: ", ErrorsString(errs)>>

SuccessMessage == <<"Request processed successfully">>

PanicMessage == <<"A panic occurred">>

(***************************************************************************)
(* recover() and runtime.Stack.                                            *)
(***************************************************************************)
PanicNilError == Val("*runtime.PanicNilError", "panic called with nil argument")

\* panic(v) as the runtime records it: panic(nil) stays nil when the build runs
\* with the panicnil=1 semantics (go directive below 1.21), and becomes a
\* *runtime.PanicNilError otherwise
PanicArg(v, nilStaysNil) ==
    IF IsNil(v) /\ ~nilStaysNil THEN PanicNilError ELSE v

\* runtime.Stack(buf, false): the bytes written, at most len(buf)
RuntimeStack(bufLen, textLen) == IF textLen < bufLen THEN textLen ELSE bufLen

\* the goroutine's stack text grows with the depth of the call stack
StackTextLen(depth) == 700 * depth

(***************************************************************************)
(* State.                                                                  *)
(***************************************************************************)
VARIABLES
    chain,      \* c.handlers: the middlewares in registration order
    req,        \* c.Request
    keys,       \* c.Keys, the request-scoped store
    span,       \* what trace.SpanFromContext finds: "none", "invalid" or "valid"
    panicnil,   \* TRUE: the build keeps panic(nil) as a nil panic value
    sticky,     \* TRUE: gin keeps the status once the headers are written
    frames,     \* the goroutine's call stack, innermost last
    index,      \* c.index
    w,          \* c.Writer: status and size
    sent,       \* what the client has received: status line and body bytes
    errors,     \* c.Errors
    log,        \* the records handed to the logrus logger, in order
    spanStatus, \* the span's status
    panicking,  \* the fault being unwound, if any
    now,        \* the clock, in ms
    steps,      \* operations the handler has performed
    raised,     \* the value the handler passed to panic, if it panicked
    caught,     \* what the recoverer's guard saw when it ran
    escaped     \* a fault left RecoveryWithLoggerMiddleware

vars == <<chain, req, keys, span, panicnil, sticky, frames, index, w, sent,
          errors, log, spanStatus, panicking, now, steps, raised, caught, escaped>>

config == <<chain, req, keys, span, panicnil, sticky>>

Chains ==
    { <<"Recovery", "GinLogrus", "handler">>,
      <<"GinLogrus", "handler">>,
      <<"Recovery", "handler">> }

SpanKinds == {"none", "invalid", "valid"}

PanicValues ==
    { NilValue, Val("string", ""), Val("string", "division by zero"),
      Val("runtime.Error", "index out of range") }

ErrorTexts == {"db down", "bad input"}

HandlerCodes == {404}

NoPanic == [on |-> FALSE, value |-> NilValue, depth |-> 0]

NotCaught ==
    [ran |-> FALSE, faulted |-> FALSE, err |-> NilValue,
     w |-> [status |-> DefaultStatus, size |-> NoWritten],
     sent |-> [status |-> 0, bytes |-> 0],
     logLen |-> 0, index |-> 0, spanStatus |-> [code |-> "Unset", description |-> ""]]

Frame(fn) == [fn |-> fn, pc |-> "start", start |-> 0,
              err |-> NilValue, stack |-> 0, fields |-> NoEntries]

Init ==
    /\ chain \in Chains
    /\ req \in Requests
    /\ keys \in KeyStores
    /\ span \in SpanKinds
    /\ panicnil \in BOOLEAN
    /\ sticky \in BOOLEAN
    /\ frames = <<Frame("engine")>>
    /\ index = 0 - 1
    /\ w = [status |-> DefaultStatus, size |-> NoWritten]
    /\ sent = [status |-> 0, bytes |-> 0]
    /\ errors = <<>>
    /\ log = <<>>
    /\ spanStatus = [code |-> "Unset", description |-> ""]
    /\ panicking = NoPanic
    /\ now = 0
    /\ steps = 0
    /\ raised = NoPanic
    /\ caught = NotCaught
    /\ escaped = FALSE

(***************************************************************************)
(* c.Next() and returning into its loop.                                   *)
(***************************************************************************)
Top == frames[Len(frames)]

Running(fn, pc) ==
    /\ Len(frames) > 0
    /\ ~panicking.on
    /\ Top.fn = fn
    /\ Top.pc = pc

Below == SubSeq(frames, 1, Len(frames) - 1)

SetTop(fs, f) == [fs EXCEPT ![Len(fs)] = f]

\* the loop of c.Next() in the frame on top of fs, with c.index = idx:
\* call handlers[idx] while idx < len(handlers), else return to the caller
NextLoop(fs, idx) ==
    IF idx < Len(chain)
    THEN Append(fs, Frame(chain[idx + 1]))
    ELSE SetTop(fs, [fs[Len(fs)] EXCEPT !.pc = "afterNext"])

\* c.Next() called by the frame on top: c.index++ and the loop
CallNext(f) ==
    /\ index' = index + 1
    /\ frames' = NextLoop(SetTop(frames, [f EXCEPT !.pc = "inNext"]), index + 1)

\* the frame on top returns into the c.Next() loop that called it, with c.index = idx
ReturnToNext(idx) ==
    /\ index' = idx + 1
    /\ frames' = NextLoop(Below, idx + 1)

(***************************************************************************)
(* The engine: it calls c.Next() once and the request is over.             *)
(***************************************************************************)
EngineStart ==
    /\ Running("engine", "start")
    /\ CallNext(Top)
    /\ UNCHANGED <<config, w, sent, errors, log, spanStatus, panicking, now, steps,
                   raised, caught, escaped>>

EngineDone ==
    /\ Running("engine", "afterNext")
    /\ frames' = <<>>
    /\ UNCHANGED <<config, index, w, sent, errors, log, spanStatus, panicking, now,
                   steps, raised, caught, escaped>>

(***************************************************************************)
(* The handler at the end of the chain: what c.Next() may do to the        *)
(* Exchange before it returns or panics.                                   *)
(***************************************************************************)
HandlerStep ==
    /\ Running("handler", "start")
    /\ steps < MaxHandlerSteps
    /\ steps' = steps + 1
    /\ now' = now + 1

\* c.Status(code)
HandlerStatus ==
    /\ HandlerStep
    /\ \E code \in HandlerCodes : w' = WriteHeader(w, code, sticky)
    /\ UNCHANGED <<config, frames, index, sent, errors, log, spanStatus, panicking,
                   raised, caught, escaped>>

\* c.Writer.Write of n bytes
HandlerWrite ==
    /\ HandlerStep
    /\ \E n \in 1..MaxWrite :
          /\ w' = [WriteHeaderNow(w) EXCEPT !.size = @ + n]
          /\ sent' = [SendHeader(w, sent) EXCEPT !.bytes = @ + n]
    /\ UNCHANGED <<config, frames, index, errors, log, spanStatus, panicking,
                   raised, caught, escaped>>

\* c.Error(err)
HandlerError ==
    /\ HandlerStep
    /\ \E e \in ErrorTexts : errors' = Append(errors, e)
    /\ UNCHANGED <<config, frames, index, w, sent, log, spanStatus, panicking,
                   raised, caught, escaped>>

\* panic(v)
HandlerPanic ==
    /\ Running("handler", "start")
    /\ \E v \in PanicValues :
          /\ panicking' = [on |-> TRUE, value |-> PanicArg(v, panicnil),
                           depth |-> Len(frames)]
          /\ raised' = [on |-> TRUE, value |-> v, depth |-> Len(frames)]
    /\ UNCHANGED <<config, frames, index, w, sent, errors, log, spanStatus, now,
                   steps, caught, escaped>>

HandlerReturn ==
    /\ Running("handler", "start")
    /\ ReturnToNext(index)
    /\ UNCHANGED <<config, w, sent, errors, log, spanStatus, panicking, now, steps,
                   raised, caught, escaped>>

(***************************************************************************)
(* GinLogrus                                                               *)
(***************************************************************************)
\* logging.go:21-24
GinLogrusStart ==
    /\ Running("GinLogrus", "start")
    /\ CallNext([Top EXCEPT !.start = now])
    /\ UNCHANGED <<config, w, sent, errors, log, spanStatus, panicking, now, steps,
                   raised, caught, escaped>>

\* logging.go:27-39: the entry's fields
GinLogrusEntry(rq, wr, ks, start, nowT) ==
    LET fields == generateLogFields(rq, wr, ks, start, nowT)
        u == UserIDOf(ks) IN
    IF u.exists THEN WithField(fields, "user.id", u.id) ELSE fields

\* logging.go:41-46: the record logged
GinLogrusRecord(entry, errs) ==
    IF Len(errs) > 0
    THEN [by |-> "GinLogrus", level |-> "error", msg |-> FailedMessage(errs),
          fields |-> entry]
    ELSE [by |-> "GinLogrus", level |-> "info", msg |-> SuccessMessage,
          fields |-> entry]

\* logging.go:26-47
GinLogrusAfter ==
    /\ Running("GinLogrus", "afterNext")
    /\ log' = Append(log, GinLogrusRecord(
                  GinLogrusEntry(req, w, keys, Top.start, now), errors))
    /\ ReturnToNext(index)
    /\ UNCHANGED <<config, w, sent, errors, spanStatus, panicking, now, steps,
                   raised, caught, escaped>>

(***************************************************************************)
(* RecoveryWithLoggerMiddleware                                            *)
(***************************************************************************)
\* logging.go:84
RecoveryStart ==
    /\ Running("Recovery", "start")
    /\ CallNext(Top)
    /\ UNCHANGED <<config, w, sent, errors, log, spanStatus, panicking, now, steps,
                   raised, caught, escaped>>

Snapshot(faulted, err) ==
    [ran |-> TRUE, faulted |-> faulted, err |-> err, w |-> w, sent |-> sent,
     logLen |-> Len(log), index |-> index, spanStatus |-> spanStatus]

\* recover(): the value of the panic being unwound, nil when there is none
Recover(p) == IF p.on THEN p.value ELSE NilValue

\* a guard whose body runs on every exit
GuardAlways(err) == TRUE

\* logging.go:53: err != nil
GuardTaken(err) == ~IsNil(err)

\* logging.go:52-57: the deferred guard runs when c.Next() returned and when
\* its panic unwinds; recover() ends the panic
RecoveryDefer ==
    /\ Len(frames) > 0
    /\ Top.fn = "Recovery"
    /\ \/ Top.pc = "afterNext" /\ ~panicking.on
       \/ Top.pc = "inNext" /\ panicking.on
    /\ panicking' = NoPanic
    /\ caught' = Snapshot(panicking.on, Recover(panicking))
    /\ IF GuardTaken(Recover(panicking))
       THEN /\ frames' = SetTop(frames,
                  [Top EXCEPT !.pc = "fields", !.start = now,
                              !.err = Recover(panicking),
                              !.stack = RuntimeStack(StackBufLen,
                                                     StackTextLen(panicking.depth))])
            /\ index' = index
       ELSE ReturnToNext(index)
    /\ UNCHANGED <<config, w, sent, errors, log, spanStatus, now, steps, raised,
                   escaped>>

\* logging.go:60
RecoveryFields ==
    /\ Running("Recovery", "fields")
    /\ frames' = SetTop(frames,
          [Top EXCEPT !.pc = "log",
                      !.fields = generateLogFields(req, w, keys, Top.start, now)])
    /\ UNCHANGED <<config, index, w, sent, errors, log, spanStatus, panicking, now,
                   steps, raised, caught, escaped>>

\* logging.go:63-69: the record logged
RecoveryRecord(fields, err, stack) ==
    [by |-> "Recovery", level |-> "error", msg |-> PanicMessage,
     fields |-> WithFields(fields,
        [k \in {"error.message", "error.stack_trace"} |->
            IF k = "error.message" THEN err ELSE <<"stack", stack>>])]

RecoveryLog ==
    /\ Running("Recovery", "log")
    /\ log' = Append(log, RecoveryRecord(Top.fields, Top.err, Top.stack))
    /\ frames' = SetTop(frames, [Top EXCEPT !.pc = "span"])
    /\ UNCHANGED <<config, index, w, sent, errors, spanStatus, panicking, now,
                   steps, raised, caught, escaped>>

\* logging.go:71-76: SpanFromContext gives a no-op span when the context has
\* none; only a valid span context is marked
\* a span marked without asking whether its context is valid
MarkSpanUnchecked(kind, status) ==
    [code |-> "Error", description |-> "panic occurred"]

MarkSpan(kind, status) ==
    IF kind = "valid"
    THEN [code |-> "Error", description |-> "panic occurred"]
    ELSE status

RecoverySpan ==
    /\ Running("Recovery", "span")
    /\ spanStatus' = MarkSpan(span, spanStatus)
    /\ frames' = SetTop(frames, [Top EXCEPT !.pc = "abort"])
    /\ UNCHANGED <<config, index, w, sent, errors, log, panicking, now, steps,
                   raised, caught, escaped>>

\* c.AbortWithStatus(code): c.Status(code), c.Writer.WriteHeaderNow(), c.Abort()
AbortWriter(wr, code, stk) == WriteHeaderNow(WriteHeader(wr, code, stk))

AbortSent(wr, snt, code, stk) == SendHeader(WriteHeader(wr, code, stk), snt)

\* logging.go:79, and the guard's return
RecoveryAbort ==
    /\ Running("Recovery", "abort")
    /\ w' = AbortWriter(w, StatusInternalServerError, sticky)
    /\ sent' = AbortSent(w, sent, StatusInternalServerError, sticky)
    /\ ReturnToNext(AbortIndex)
    /\ UNCHANGED <<config, errors, log, spanStatus, panicking, now, steps, raised, caught,
                   escaped>>

(***************************************************************************)
(* Unwinding: a panic leaves every frame that does not recover it.         *)
(***************************************************************************)
Unwind ==
    /\ Len(frames) > 0
    /\ panicking.on
    /\ ~(Top.fn = "Recovery" /\ Top.pc = "inNext")
    /\ frames' = Below
    /\ escaped' = (escaped \/ Top.fn = "Recovery")
    /\ UNCHANGED <<config, index, w, sent, errors, log, spanStatus, panicking, now,
                   steps, raised, caught>>

(***************************************************************************)
(* Faults raised by the collaborators: a nil logger, a hook or formatter   *)
(* that panics, a nil c.Request, a response writer that panics.            *)
(***************************************************************************)
ReentrantValue == Val("runtime.Error", "invalid memory address or nil pointer dereference")

\* a panic raised while the guard of logging.go:52-81 is running
GuardFault ==
    /\ Len(frames) > 0
    /\ ~panicking.on
    /\ Top.fn = "Recovery"
    /\ Top.pc \in {"fields", "log", "span", "abort"}
    /\ panicking' = [on |-> TRUE, value |-> ReentrantValue, depth |-> Len(frames)]
    /\ UNCHANGED <<config, frames, index, w, sent, errors, log, spanStatus, now,
                   steps, raised, caught, escaped>>

\* a panic raised by GinLogrus itself after the chain returned
GinLogrusFault ==
    /\ Running("GinLogrus", "afterNext")
    /\ panicking' = [on |-> TRUE, value |-> ReentrantValue, depth |-> Len(frames)]
    /\ UNCHANGED <<config, frames, index, w, sent, errors, log, spanStatus, now,
                   steps, raised, caught, escaped>>

(***************************************************************************)
(* Specifications.                                                         *)
(***************************************************************************)
Next ==
    \/ EngineStart
    \/ EngineDone
    \/ HandlerStatus
    \/ HandlerWrite
    \/ HandlerError
    \/ HandlerPanic
    \/ HandlerReturn
    \/ GinLogrusStart
    \/ GinLogrusAfter
    \/ RecoveryStart
    \/ RecoveryDefer
    \/ RecoveryFields
    \/ RecoveryLog
    \/ RecoverySpan
    \/ RecoveryAbort
    \/ Unwind

\* the collaborators keep their contracts: no call of the guard or of GinLogrus panics
Spec == Init /\ [][Next]_vars

NextReentrant ==
    \/ Next
    \/ GuardFault
    \/ GinLogrusFault

\* the collaborators may panic
SpecReentrant == Init /\ [][NextReentrant]_vars

(***************************************************************************)
(* Vocabulary of the properties.                                           *)
(***************************************************************************)
RecordsBy(who) == SelectSeq(log, LAMBDA r : r.by = who)

OnStack(fn) == \E i \in 1..Len(frames) : frames[i].fn = fn

\* the middleware fn was entered and has left the call stack
Left(fn) ==
    /\ \E i \in 1..Len(chain) : chain[i] = fn /\ index >= i - 1
    /\ ~OnStack(fn)

\* RecoveryWithLoggerMiddleware returned normally
RecoveryReturned == Left("Recovery") /\ caught.ran /\ ~escaped /\ ~panicking.on

\* the chain the recoverer wraps raised a fault
ChainFaulted == caught.ran /\ caught.faulted

\* the attributes section 4.1 of the specification requires of every field set
RequiredKeys ==
    {"url.scheme", "url.full", "url.original", "url.path", "url.query",
     "url.fragment", "url.domain", "url.port", "url.registered_domain",
     "http.request.method", "http.version", "http.request.bytes",
     "http.request.mime_type", "http.request.referrer",
     "http.response.body.bytes", "http.response.status_code",
     "client.address", "client.ip", "server.address", "server.ip",
     "user_agent.original", "event.duration", "event.start", "event.end"}

HasRequiredKeys(r) == RequiredKeys \subseteq DOMAIN r.fields

Aborted == index >= AbortIndex

(***************************************************************************)
(* C1: for every request whose wrapped chain raises a fault, whatever the  *)
(* fault value, once RecoveryWithLoggerMiddleware has returned the log     *)
(* holds exactly one record of the recoverer, at error level, whose        *)
(* error.message is non-empty and is the fault's value, whose              *)
(* error.stack_trace is non-empty, and which has every key of              *)
(* generateLogFields.                                                      *)
(***************************************************************************)
C1_OneErrorRecordPerFault ==
    (RecoveryReturned /\ raised.on) =>
        /\ Len(RecordsBy("Recovery")) = 1
        /\ LET r == RecordsBy("Recovery")[1] IN
              /\ r.level = "error"
              /\ "error.message" \in DOMAIN r.fields
              /\ r.fields["error.message"] = raised.value
              /\ r.fields["error.message"].text /= ""
              /\ "error.stack_trace" \in DOMAIN r.fields
              /\ r.fields["error.stack_trace"][2] > 0
              /\ HasRequiredKeys(r)

(***************************************************************************)
(* C2: a fault never propagates past RecoveryWithLoggerMiddleware, also    *)
(* when it is raised inside GinLogrus or while the guard is handling a     *)
(* first fault (field extraction, log emission, span marking, abort).      *)
(***************************************************************************)
C2_FaultContained == ~escaped

(***************************************************************************)
(* C3: for every request whose wrapped chain raises a fault, after         *)
(* RecoveryWithLoggerMiddleware returns the response status is exactly 500 *)
(* and the response body is empty, whatever status, headers and body bytes *)
(* the handler had produced before the fault.  Stated on the faults that   *)
(* reach the guard's body; the nil panic value that skips it is C1's case. *)
(***************************************************************************)
C3_Empty500AfterFault ==
    (RecoveryReturned /\ ChainFaulted /\ GuardTaken(caught.err)) =>
        /\ w.status = StatusInternalServerError
        /\ sent.status = StatusInternalServerError
        /\ sent.bytes = 0

(***************************************************************************)
(* C4: for every request whose wrapped chain returns with no recorded      *)
(* errors and no fault, GinLogrus emits exactly one record, at info level, *)
(* with the message "request processed successfully", holding every        *)
(* required key (empty source values appear as empty values).              *)
(***************************************************************************)
CleanReturn == Left("GinLogrus") /\ ~raised.on /\ ~panicking.on /\ errors = <<>>

C4_InfoRecordWithMessage(text) ==
    CleanReturn =>
        /\ Len(RecordsBy("GinLogrus")) = 1
        /\ LET r == RecordsBy("GinLogrus")[1] IN
              /\ r.level = "info"
              /\ r.msg = <<text>>
              /\ HasRequiredKeys(r)
              /\ r.fields["url.fragment"] = req.Fragment
              /\ r.fields["url.query"] = req.RawQuery

\* the claim as stated: the message in lower case
C4_OneInfoRecord_Original == C4_InfoRecordWithMessage("request processed successfully")

\* C4 amended: the message is "Request processed successfully"
C4_OneInfoRecord == C4_InfoRecordWithMessage("Request processed successfully")

\* the request with every source value empty went through GinLogrus cleanly
C4_Witness ==
    /\ CleanReturn
    /\ req.UrlString = ""
    /\ Len(RecordsBy("GinLogrus")) = 1
    /\ RecordsBy("GinLogrus")[1].fields["url.path"] = ""

(***************************************************************************)
(* C5: for every request whose wrapped chain returns without a fault and   *)
(* with one or more recorded errors, GinLogrus emits exactly one record,   *)
(* at error level, whose message renders every recorded error, and the     *)
(* step in which GinLogrus logs leaves status, bytes written and the       *)
(* aborted flag as the chain produced them.                                *)
(***************************************************************************)
ErrorReturn == Left("GinLogrus") /\ ~raised.on /\ ~panicking.on /\ errors /= <<>>

Renders(msg, i) ==
    /\ Len(msg) = 2
    /\ \E j \in 1..Len(msg[2]) : msg[2][j][2] = i /\ msg[2][j][3] = errors[i]

C5_ErrorRecordState ==
    ErrorReturn =>
        /\ Len(RecordsBy("GinLogrus")) = 1
        /\ LET r == RecordsBy("GinLogrus")[1] IN
              /\ r.level = "error"
              /\ \A i \in 1..Len(errors) : Renders(r.msg, i)

GinLogrusLogged ==
    /\ Len(log') = Len(log) + 1
    /\ log'[Len(log')].by = "GinLogrus"

C5_ResponseUntouched ==
    GinLogrusLogged =>
        /\ w' = w
        /\ sent' = sent
        /\ (index' >= AbortIndex) = (index >= AbortIndex)

C5_OneErrorRecord == [](C5_ErrorRecordState) /\ [][C5_ResponseUntouched]_vars

\* two different errors were recorded and GinLogrus has logged
C5_Witness ==
    /\ ErrorReturn
    /\ Len(errors) = 2
    /\ errors[1] /= errors[2]
    /\ Len(RecordsBy("GinLogrus")) = 1

(***************************************************************************)
(* C6: the field set of generateLogFields, and the record of GinLogrus,    *)
(* holds user.id if and only if the store holds under "userClaims" a       *)
(* string-keyed map with a text-valued "UserID" entry, and then user.id is *)
(* that text; for every other shape user.id is absent; logging raises no   *)
(* fault and the store is never modified.                                  *)
(***************************************************************************)
StringKeyedMapTypes == {GenericMap, "map[string]string", "jwt.MapClaims"}

\* the store holds a map, of one of the given types, with a text "UserID"
HoldsTextUserID(mapTypes) ==
    /\ UserClaimsKey \in DOMAIN keys
    /\ keys[UserClaimsKey].dyn \in mapTypes
    /\ "UserID" \in DOMAIN keys[UserClaimsKey].entries
    /\ keys[UserClaimsKey].entries["UserID"].dyn = "string"

C6_UserIdState(mapTypes) ==
    \A i \in 1..Len(log) :
        /\ ("user.id" \in DOMAIN log[i].fields) <=> HoldsTextUserID(mapTypes)
        /\ "user.id" \in DOMAIN log[i].fields =>
              log[i].fields["user.id"] = keys[UserClaimsKey].entries["UserID"].text

C6_ReadOnly ==
    /\ keys' = keys
    /\ Len(log') > Len(log) => ~panicking'.on

\* the claim as stated: any string-keyed map
C6_UserId_Original ==
    [](C6_UserIdState(StringKeyedMapTypes)) /\ [][C6_ReadOnly]_vars

\* C6 amended: the value's dynamic type is exactly map[string]interface{}
C6_UserId == [](C6_UserIdState({GenericMap})) /\ [][C6_ReadOnly]_vars

\* a record was logged with the user.id of the stored claims
C6_Witness ==
    /\ HoldsTextUserID({GenericMap})
    /\ Len(log) = 1
    /\ "user.id" \in DOMAIN log[1].fields
    /\ log[1].fields["user.id"] = "abc-123"

(***************************************************************************)
(* C7: when the chain wrapped by RecoveryWithLoggerMiddleware returns      *)
(* without raising a fault, the middleware emits no record, leaves the     *)
(* response status and body unchanged, does not abort the chain and does   *)
(* not touch the span.                                                     *)
(***************************************************************************)
C7_NoActionWithoutFault ==
    (caught.ran /\ ~caught.faulted) =>
        /\ RecordsBy("Recovery") = <<>>
        /\ ~OnStack("Recovery")
        /\ w = caught.w
        /\ sent = caught.sent
        /\ spanStatus = caught.spanStatus
        /\ ~Aborted

\* the guard ran on a normal return after the handler had written a body
C7_Witness ==
    /\ caught.ran
    /\ ~caught.faulted
    /\ Left("Recovery")
    /\ sent.bytes > 0
    /\ span = "valid"

(***************************************************************************)
(* C8: on the fault path of RecoveryWithLoggerMiddleware the span is       *)
(* marked errored with description "panic occurred" if and only if a span  *)
(* is active and its context valid; a no-op or invalid span is left as it  *)
(* was and raises no fault; in both cases the error record is logged and   *)
(* the response is aborted with 500.                                       *)
(***************************************************************************)
FaultPathDone ==
    /\ caught.ran
    /\ caught.faulted
    /\ GuardTaken(caught.err)
    /\ Left("Recovery")

C8_SpanMarkedIffValid ==
    FaultPathDone =>
        /\ ~escaped
        /\ ~panicking.on
        /\ (spanStatus = [code |-> "Error", description |-> "panic occurred"])
              <=> (span = "valid")
        /\ span /= "valid" => spanStatus = caught.spanStatus
        /\ Len(RecordsBy("Recovery")) = 1
        /\ RecordsBy("Recovery")[1].level = "error"
        /\ Aborted
        /\ Written(w)
        /\ ~Written(caught.w) => sent.status = StatusInternalServerError

\* the fault path finished with an invalid span left unmarked
C8_Witness ==
    /\ FaultPathDone
    /\ span = "invalid"
    /\ spanStatus.code = "Unset"
    /\ Aborted

(***************************************************************************)
(* C9: in the chain RecoveryWithLoggerMiddleware -> GinLogrus -> handler   *)
(* every request produces exactly one record across both middlewares:      *)
(* info from GinLogrus when the handler returns with no recorded errors,   *)
(* error from GinLogrus when it returns with recorded errors, error from   *)
(* the recoverer when the handler raises a fault (GinLogrus then logs      *)
(* nothing).                                                               *)
(***************************************************************************)
Done == frames = <<>>

C9_ExactlyOneRecord ==
    (Done /\ chain = <<"Recovery", "GinLogrus", "handler">>) =>
        /\ Len(log) = 1
        /\ IF raised.on
           THEN log[1].by = "Recovery" /\ log[1].level = "error"
           ELSE /\ log[1].by = "GinLogrus"
                /\ log[1].level = IF errors = <<>> THEN "info" ELSE "error"

(***************************************************************************)
(* C10: on the fault path the guard extracts the fields, then logs, then   *)
(* marks the span, then aborts with 500; so the status code and the byte   *)
(* count in the fault record are those the response had when the fault was *)
(* caught.                                                                 *)
(***************************************************************************)
C10_FaultPathOrder ==
    LET rs == RecordsBy("Recovery") IN
    /\ rs /= <<>> =>
          /\ caught.faulted
          /\ rs[1].fields["http.response.status_code"] = caught.w.status
          /\ rs[1].fields["http.response.body.bytes"] = caught.w.size
    /\ (caught.ran /\ spanStatus /= caught.spanStatus) => rs /= <<>>
    /\ Aborted =>
          /\ rs /= <<>>
          /\ spanStatus = MarkSpan(span, caught.spanStatus)
    /\ (OnStack("Recovery") /\ caught.ran) => (w = caught.w /\ sent = caught.sent)

\* the record kept the handler's 404 and the response was then aborted with 500
C10_Witness ==
    /\ FaultPathDone
    /\ Len(RecordsBy("Recovery")) = 1
    /\ RecordsBy("Recovery")[1].fields["http.response.status_code"] = 404
    /\ w.status = StatusInternalServerError
    /\ sent.status = StatusInternalServerError

====
